---- MODULE Spec2Model ----
(***************************************************************************)
(* A model of the question-answering core of idle-universe-code:           *)
(*   qa_chain/lcel_chain.py  LCELQaChain, QaChainManager                   *)
(*   llm/zhipu_llm.py        ZhipuLLM, ZhipuChatModel, main                *)
(*   llm/openai_llm.py       OpenAILLM, main                               *)
(*   database/create_db.py   DatabaseManager, main                         *)
(* Texts are sequences of tokens (short strings); "NL" is a newline.       *)
(***************************************************************************)
EXTENDS Integers, Sequences, FiniteSets, TLC

VARIABLES
    fs,            \* the index path on disk: [exists, present, emb, entries]
    knowledge_db,  \* the documents under knowledge_db/ (fixed after start)
    api_keys,      \* config.llm.zhipuai_api_key / openai_api_key are set
    chains,        \* QaChainManager.chains: key -> object id
    heap,          \* the LCELQaChain objects constructed so far (id = index)
    pc,            \* per thread: position inside get_chain
    frame,         \* per thread: arguments and locals of get_chain
    built,         \* per key: constructions since the cache was last cleared
    calls,         \* number of get_chain calls started
    out            \* the call the running handler or tool has made (answer,
                   \* answer_stream, create / load of the database tool, the
                   \* backend test program): its inputs and what it did

vars == <<fs, knowledge_db, api_keys, chains, heap, pc, frame, built, calls, out>>

---------------------------------------------------------------------------
(* Bounds of the model *)

MaxObjects == 3
MaxCalls == 3
MaxThreads == 2

Threads == 1..MaxThreads
MainThread == CHOOSE t \in Threads : \A u \in Threads : t <= u

---------------------------------------------------------------------------
(* Names and program constants *)

None == <<"<None>">>
NL == "NL"

Zhipu == <<"zhipu">>
OpenAI == <<"openai">>
M3E == <<"m3e">>

\* config.llm.default_model = "chatglm_std"
default_model == <<"chatglm", "_", "std">>
chatglm_pro == <<"chatglm", "_", "pro">>

\* LCELQaChain.__init__ defaults
DefaultTopK == 4
\* temperatures are kept in tenths: 0.1 is 1
DefaultTemperature == 1
\* config.llm.temperature, copied into ZhipuLLM and ZhipuChatModel
ConfigTemperature == 1

\* the arguments callers pass to get_chain
Requests ==
    { <<Zhipu, None, M3E>>,
      <<Zhipu, default_model, M3E>>,
      <<Zhipu, chatglm_pro, M3E>>,
      <<Zhipu, None, OpenAI>>,
      <<OpenAI, None, M3E>>,
      <<<<"other">>, None, M3E>>,
      <<Zhipu, None, <<"bad">>>> }

\* Python's str() inside an f-string: None prints as "None"
PyStr(x) == IF x = None THEN <<"None">> ELSE x

\* Python's `x or d`
PyOr(x, d) == IF x = None \/ x = <<>> THEN d ELSE x

\* key = f"{model_provider}_{model_name}_{embedding_type}"
ChainKey(model_provider, model_name, embedding_type) ==
    PyStr(model_provider) \o <<"_">> \o PyStr(model_name) \o <<"_">> \o PyStr(embedding_type)

gpt35 == <<"gpt-3.5-turbo">>

\* the provider, model and embedding a user selects in the Streamlit sidebar
ManualChoices ==
    { <<Zhipu, default_model, M3E>>,
      <<Zhipu, chatglm_pro, OpenAI>>,
      <<OpenAI, gpt35, M3E>> }

Keys == { ChainKey(r[1], r[2], r[3]) : r \in Requests \cup ManualChoices }

---------------------------------------------------------------------------
(* Documents and the index on disk *)

Doc(text, src) == [page_content |-> text, metadata |-> [source |-> src]]
DocNoSource(text) == [page_content |-> text, metadata |-> [title |-> "t"]]

\* a corpus with more documents than the retriever's k, two of them sharing a
\* source
Corpus ==
    << Doc(<<"a", "b">>, "s1"), Doc(<<"a">>, "s1"), Doc(<<"b", "c">>, "s2"),
       Doc(<<>>, "s4"), Doc(<<"c">>, "s3"), Doc(<<"a", "c">>, "s2"),
       Doc(<<"d">>, "s5") >>

\* a knowledge base whose only file holds white space: one document, no chunks
BlankCorpus == << Doc(<<>>, "s0") >>

SmallCorpus == << Doc(<<"b">>, "s2"), DocNoSource(<<"a", "b">>) >>

NoIndex == [exists |-> FALSE, present |-> FALSE, emb |-> None, entries |-> <<>>]
EmptyDir == [exists |-> TRUE, present |-> FALSE, emb |-> None, entries |-> <<>>]
Index(emb, entries) == [exists |-> TRUE, present |-> TRUE, emb |-> emb, entries |-> entries]

---------------------------------------------------------------------------
(* database/create_db.py: DatabaseManager *)

\* an omitted int argument (Python None)
IntNone == -1

\* Python's `x or d` on an optional int: None and 0 are both falsy
PyOrInt(x, d) == IF x = IntNone \/ x = 0 THEN d ELSE x

\* config.embedding.chunk_size / chunk_overlap
chunk_size_default == 500
chunk_overlap_default == 150

\* windows of `size` tokens advancing by `step`; the last may be shorter and
\* an empty text yields no chunk
RECURSIVE Windows(_, _, _)
Windows(text, size, step) ==
    IF Len(text) <= size
    THEN (IF text = <<>> THEN <<>> ELSE <<text>>)
    ELSE <<SubSeq(text, 1, size)>> \o Windows(SubSeq(text, step + 1, Len(text)), size, step)

RECURSIVE SplitAll(_, _, _)
SplitAll(documents, size, step) ==
    IF documents = <<>> THEN <<>>
    ELSE LET d == Head(documents)
             parts == Windows(d.page_content, size, step)
         IN [i \in 1..Len(parts) |-> [page_content |-> parts[i], metadata |-> d.metadata]]
            \o SplitAll(Tail(documents), size, step)

\* DatabaseManager.split_documents: [exc, docs]
split_documents(documents, chunk_size, chunk_overlap) ==
    LET size == PyOrInt(chunk_size, chunk_size_default)
        overlap == PyOrInt(chunk_overlap, chunk_overlap_default)
    IN IF overlap > size
       THEN [exc |-> "ValueError", docs |-> <<>>]
       ELSE [exc |-> "none",
             docs |-> SplitAll(documents, size, IF size > overlap THEN size - overlap ELSE 1)]

\* DatabaseManager.__init__: os.makedirs(vector_db_path, exist_ok=True); the
\* index path "vector_db/faiss" is that same directory
DatabaseManager_init(files) == [files EXCEPT !.exists = TRUE]

\* FAISS.from_documents + save_local: [exc, entries, fs]
\* (an empty document list has no first embedding to size the index with)
from_documents_and_save(split_docs, embedding_type, files) ==
    IF split_docs = <<>>
    THEN [exc |-> "IndexError", entries |-> <<>>, fs |-> files]
    ELSE [exc |-> "none", entries |-> split_docs, fs |-> Index(embedding_type, split_docs)]

\* no vector store object (None, or the attribute was never assigned)
NoVectorDb == [emb |-> None, entries |-> <<>>]

\* OpenAIEmbeddings() / M3EEmbeddings(...) as create_vector_db and
\* load_vector_db select them: the exception raised, or "none"
db_embedding(embedding_type, keys) ==
    IF embedding_type = OpenAI
    THEN (IF keys.openai THEN "none" ELSE "ValidationError")
    ELSE IF embedding_type = M3E THEN "none"
    ELSE "ValueError"

\* manager = DatabaseManager(); manager.create_vector_db(embedding_type):
\* [exc, none, vectordb, fs]; none is the return value None
create_vector_db(embedding_type, files, keys, documents) ==
    LET files1 == DatabaseManager_init(files)
        e == db_embedding(embedding_type, keys)
        split == split_documents(documents, IntNone, IntNone)
        made == from_documents_and_save(split.docs, embedding_type, files1)
    IN IF e # "none"
       THEN [exc |-> e, none |-> FALSE, vectordb |-> NoVectorDb, fs |-> files1]
       ELSE IF documents = <<>>
       THEN [exc |-> "none", none |-> TRUE, vectordb |-> NoVectorDb, fs |-> files1]
       ELSE IF split.exc # "none"
       THEN [exc |-> split.exc, none |-> FALSE, vectordb |-> NoVectorDb, fs |-> files1]
       ELSE IF made.exc # "none"
       THEN [exc |-> "Exception", none |-> FALSE, vectordb |-> NoVectorDb, fs |-> files1]
       ELSE [exc |-> "none", none |-> FALSE,
             vectordb |-> [emb |-> embedding_type, entries |-> made.entries],
             fs |-> made.fs]

\* manager = DatabaseManager(); manager.load_vector_db(embedding_type):
\* [exc, none, vectordb]. The constructor has created the directory of the
\* index path, so os.path.exists holds; every failure inside the try returns
\* None
load_vector_db(embedding_type, files, keys) ==
    LET files1 == DatabaseManager_init(files)
    IN IF db_embedding(embedding_type, keys) # "none"
       THEN [exc |-> "none", none |-> TRUE, vectordb |-> NoVectorDb]
       ELSE IF ~files1.exists
       THEN [exc |-> "none", none |-> TRUE, vectordb |-> NoVectorDb]
       ELSE IF ~files1.present
       THEN [exc |-> "none", none |-> TRUE, vectordb |-> NoVectorDb]
       ELSE [exc |-> "none", none |-> FALSE,
             vectordb |-> [emb |-> files1.emb, entries |-> files1.entries]]

---------------------------------------------------------------------------
(* qa_chain/lcel_chain.py: LCELQaChain construction *)

\* _init_llm: the name of the exception raised, or "none"
init_llm(model_provider, keys) ==
    IF model_provider = Zhipu
    THEN (IF keys.zhipu THEN "none" ELSE "ValueError")
    ELSE IF model_provider = OpenAI
    THEN (IF keys.openai THEN "none" ELSE "ValueError")
    ELSE "ValueError"

\* _init_embedding
init_embedding(embedding_type, keys) ==
    IF embedding_type = OpenAI
    THEN (IF keys.openai THEN "none" ELSE "ValidationError")
    ELSE IF embedding_type = M3E THEN "none"
    ELSE "ValueError"

\* _create_faiss_vector_db: [exc, vectordb, fs]
\* (variant: an empty corpus is indexed instead of refused)
create_faiss_vector_db_empty_ok(embedding_type, files, documents) ==
    LET files1 == DatabaseManager_init(files)
        split == split_documents(documents, IntNone, IntNone)
    IN IF split.exc # "none"
       THEN [exc |-> split.exc, vectordb |-> NoVectorDb, fs |-> files1]
       ELSE [exc |-> "none",
             vectordb |-> [emb |-> embedding_type, entries |-> split.docs],
             fs |-> Index(embedding_type, split.docs)]
create_faiss_vector_db(embedding_type, files, documents) ==
    LET files1 == DatabaseManager_init(files)
        split == split_documents(documents, IntNone, IntNone)
        made == from_documents_and_save(split.docs, embedding_type, files1)
    IN IF documents = <<>>
       THEN [exc |-> "Exception", vectordb |-> NoVectorDb, fs |-> files1]
       ELSE IF split.exc # "none"
       THEN [exc |-> split.exc, vectordb |-> NoVectorDb, fs |-> files1]
       ELSE IF made.exc # "none"
       THEN [exc |-> made.exc, vectordb |-> NoVectorDb, fs |-> files1]
       ELSE [exc |-> "none",
             vectordb |-> [emb |-> embedding_type, entries |-> made.entries],
             fs |-> made.fs]

\* _init_vector_db: [exc, vectordb, fs]
\* FAISS.load_local reads whatever index is stored at the path; it does not
\* compare the stored vectors' width with the embedding it is given
\* states: the states the index of this pipeline goes through
\* (variant: a failing load is logged and swallowed)
init_vector_db_swallows(embedding_type, files, documents) ==
    IF files.exists
    THEN (IF files.present
          THEN [exc |-> "none",
                vectordb |-> [emb |-> files.emb, entries |-> files.entries],
                fs |-> files, states |-> <<"Empty", "Loading", "Ready">>]
          ELSE [exc |-> "none", vectordb |-> NoVectorDb, fs |-> files,
                states |-> <<"Empty", "Loading">>])
    ELSE LET made == create_faiss_vector_db(embedding_type, files, documents)
         IN [exc |-> made.exc, vectordb |-> made.vectordb, fs |-> made.fs,
             states |-> IF made.exc = "none"
                        THEN <<"Empty", "Building", "Ready">>
                        ELSE <<"Empty", "Building">>]

init_vector_db(embedding_type, files, documents) ==
    IF files.exists
    THEN (IF files.present
          THEN [exc |-> "none",
                vectordb |-> [emb |-> files.emb, entries |-> files.entries],
                fs |-> files, states |-> <<"Empty", "Loading", "Ready">>]
          ELSE [exc |-> "RuntimeError", vectordb |-> NoVectorDb, fs |-> files,
                states |-> <<"Empty", "Loading">>])
    ELSE LET made == create_faiss_vector_db(embedding_type, files, documents)
         IN [exc |-> made.exc, vectordb |-> made.vectordb, fs |-> made.fs,
             states |-> IF made.exc = "none"
                        THEN <<"Empty", "Building", "Ready">>
                        ELSE <<"Empty", "Building">>]

\* _build_chain: `self.qa_prompt | self.llm` needs a Runnable; ZhipuChatModel
\* is one (a BaseChatModel), OpenAILLM is a plain class
build_chain(model_provider) ==
    IF model_provider = Zhipu THEN "none" ELSE "TypeError"

\* LCELQaChain.__init__: [exc, obj, fs]
LCELQaChain_init(model_provider, model_name, embedding_type, files, keys, documents) ==
    LET e1 == init_llm(model_provider, keys)
        e2 == init_embedding(embedding_type, keys)
        db == init_vector_db(embedding_type, files, documents)
        e5 == build_chain(model_provider)
        obj == [model_provider |-> model_provider,
                model_name |-> PyOr(model_name, default_model),
                embedding_type |-> embedding_type,
                top_k |-> DefaultTopK,
                temperature |-> DefaultTemperature,
                llm_temperature |-> ConfigTemperature,
                retriever_k |-> DefaultTopK,
                vectordb |-> db.vectordb,
                index_states |-> db.states]
    IN IF e1 # "none" THEN [exc |-> e1, obj |-> obj, fs |-> files, states |-> <<"Empty">>]
       ELSE IF e2 # "none" THEN [exc |-> e2, obj |-> obj, fs |-> files, states |-> <<"Empty">>]
       ELSE IF db.exc # "none" THEN [exc |-> db.exc, obj |-> obj, fs |-> db.fs, states |-> db.states]
       ELSE IF e5 # "none" THEN [exc |-> e5, obj |-> obj, fs |-> db.fs, states |-> db.states]
       ELSE [exc |-> "none", obj |-> obj, fs |-> db.fs, states |-> db.states]

---------------------------------------------------------------------------
(* Text helpers *)

IsSpace(tok) == tok \in {" ", NL}

RECURSIVE LStrip(_)
LStrip(text) ==
    IF text # <<>> /\ IsSpace(Head(text)) THEN LStrip(Tail(text)) ELSE text

RECURSIVE RStrip(_)
RStrip(text) ==
    IF text # <<>> /\ IsSpace(text[Len(text)])
    THEN RStrip(SubSeq(text, 1, Len(text) - 1))
    ELSE text

\* a strip() that removes nothing
strip_nothing(text) == text

\* str.strip()
Strip(text) == RStrip(LStrip(text))

Digit(i) == <<"1", "2", "3", "4", "5", "6", "7", "8", "9">>[i]

Tokens(text) == { text[i] : i \in 1..Len(text) }

\* "sep".join(parts)
RECURSIVE Join(_, _)
Join(sep, parts) ==
    IF parts = <<>> THEN <<>>
    ELSE IF Len(parts) = 1 THEN parts[1]
    ELSE parts[1] \o sep \o Join(sep, Tail(parts))

---------------------------------------------------------------------------
(* llm/zhipu_llm.py *)

\* what the remote completion call does: it returns a reply with a text,
\* returns no choices, or raises
BackendOk(text) == [kind |-> "ok", text |-> text]
BackendEmpty == [kind |-> "empty", text |-> <<>>]
BackendError == [kind |-> "error", text |-> <<>>]

\* variant of generate without its try/except: the backend's error escapes
generate_unguarded(backend) ==
    IF backend.kind = "error" THEN [raised |-> TRUE, none |-> FALSE, text |-> <<>>]
    ELSE IF backend.kind = "empty" THEN [raised |-> FALSE, none |-> TRUE, text |-> <<>>]
    ELSE [raised |-> FALSE, none |-> FALSE, text |-> backend.text]

\* ZhipuLLM.generate: [raised, none, text]; none is Python's None (the
\* failure signal), returned by the except clause and for a reply without
\* choices
ZhipuLLM_generate(backend) ==
    IF backend.kind = "error" THEN [raised |-> FALSE, none |-> TRUE, text |-> <<>>]
    ELSE IF backend.kind = "empty" THEN [raised |-> FALSE, none |-> TRUE, text |-> <<>>]
    ELSE [raised |-> FALSE, none |-> FALSE, text |-> backend.text]

\* ZhipuChatModel._messages_to_text on the one HumanMessage of the prompt
messages_to_text(content) == <<"User:">> \o content

\* ZhipuChatModel._generate: [exc, text]
ZhipuChatModel_generate(backend) ==
    LET response == ZhipuLLM_generate(backend)
    IN IF response.none
       THEN [exc |-> "Exception", text |-> <<>>]
       ELSE [exc |-> "none", text |-> response.text]

\* ZhipuLLM.generate_stream, consumed to its end: the fragments it yields.
\* stream.chunks are the deltas the backend sends (an empty delta is skipped),
\* stream.fail_after = n >= 0 makes the backend raise after n deltas.
NoFail == -1

\* variant of the loop that stops at the first delta without content
RECURSIVE NonEmptyUntilGap(_)
NonEmptyUntilGap(chunks) ==
    IF chunks = <<>> \/ Head(chunks) = <<>> THEN <<>>
    ELSE <<Head(chunks)>> \o NonEmptyUntilGap(Tail(chunks))

\* `if content: yield content` over the deltas
RECURSIVE NonEmpty(_)
NonEmpty(chunks) ==
    IF chunks = <<>> THEN <<>>
    ELSE IF Head(chunks) = <<>> THEN NonEmpty(Tail(chunks))
    ELSE <<Head(chunks)>> \o NonEmpty(Tail(chunks))

\* f"错误: {e}"
ErrorMarker(e) == <<"Error:", e>>

\* variant of generate_stream without its try/except
generate_stream_unguarded(stream) ==
    IF stream.fail_after = NoFail
    THEN [raised |-> FALSE, fragments |-> NonEmpty(stream.chunks)]
    ELSE [raised |-> TRUE,
          fragments |-> NonEmpty(SubSeq(stream.chunks, 1, stream.fail_after))]

\* [raised, fragments]: whether the generator raised, and what it yielded
ZhipuLLM_generate_stream(stream) ==
    IF stream.fail_after = NoFail
    THEN [raised |-> FALSE, fragments |-> NonEmpty(stream.chunks)]
    ELSE [raised |-> FALSE,
          fragments |-> NonEmpty(SubSeq(stream.chunks, 1, stream.fail_after))
                        \o <<ErrorMarker("APIError")>>]

---------------------------------------------------------------------------
(* llm/openai_llm.py *)

\* OpenAILLM.generate: [raised, none, text]
OpenAILLM_generate(backend) ==
    IF backend.kind = "error" THEN [raised |-> FALSE, none |-> TRUE, text |-> <<>>]
    ELSE IF backend.kind = "empty" THEN [raised |-> FALSE, none |-> TRUE, text |-> <<>>]
    ELSE [raised |-> FALSE, none |-> FALSE, text |-> backend.text]

\* OpenAILLM.generate_stream, consumed to its end: [raised, fragments]
OpenAILLM_generate_stream(stream) ==
    IF stream.fail_after = NoFail
    THEN [raised |-> FALSE, fragments |-> NonEmpty(stream.chunks)]
    ELSE [raised |-> FALSE,
          fragments |-> NonEmpty(SubSeq(stream.chunks, 1, stream.fail_after))
                        \o <<ErrorMarker("APIError")>>]

---------------------------------------------------------------------------
(* qa_chain/lcel_chain.py: answering *)

\* _enhance_question_with_history: [exc, text]
\* an empty history stands for both [] and None; a turn that is not a pair
\* cannot be unpacked into (user_msg, ai_msg)
RECURSIVE history_text(_, _)
history_text(turns, i) ==
    IF turns = <<>> THEN <<>>
    ELSE <<"Turn", Digit(i), ":", NL, "User:">> \o Head(turns)[1]
         \o <<NL, "Assistant:">> \o Head(turns)[2] \o <<NL, NL>>
         \o history_text(Tail(turns), i + 1)

\* variant of chat_history[-n:]: the oldest n turns
FirstTurns(chat_history, n) ==
    SubSeq(chat_history, 1, IF Len(chat_history) > n THEN n ELSE Len(chat_history))

\* chat_history[-n:]
LastTurns(chat_history, n) ==
    SubSeq(chat_history,
           IF Len(chat_history) > n THEN Len(chat_history) - n + 1 ELSE 1,
           Len(chat_history))

HistoryWindow == 3

\* variant: no early return for an empty history
enhance_question_always_wraps(question, chat_history) ==
    [exc |-> "none",
     text |-> <<"UseHistory:", NL, NL>> \o <<NL, "Question:">> \o question
              \o <<NL, NL, "AnswerFromHistory">>]

enhance_question_with_history(question, chat_history) ==
    IF chat_history = <<>>
    THEN [exc |-> "none", text |-> question]
    ELSE LET recent == LastTurns(chat_history, HistoryWindow)
         IN IF \E i \in 1..Len(recent) : Len(recent[i]) # 2
            THEN [exc |-> "ValueError", text |-> <<>>]
            ELSE [exc |-> "none",
                  text |-> <<"UseHistory:", NL, NL>> \o history_text(recent, 1)
                           \o <<NL, "Question:">> \o question
                           \o <<NL, NL, "AnswerFromHistory">>]

\* config.qa_chain.default_template rendered with {context, question}
qa_prompt(context, question) ==
    <<"Assistant", NL, "Context:">> \o context \o <<NL, "Question:">> \o question
    \o <<NL, "AnswerInChinese", NL, "Answer:">>

\* the similarity of a query and a stored chunk: the tokens they share
Score(query, doc) == Cardinality(Tokens(query) \cap Tokens(doc.page_content))

\* the entries' positions, nearest first, ties in insertion order
RECURSIVE RankFrom(_, _, _)
RankFrom(query, entries, left) ==
    IF left = {} THEN <<>>
    ELSE LET best == CHOOSE i \in left : \A j \in left :
                        \/ Score(query, entries[i]) > Score(query, entries[j])
                        \/ Score(query, entries[i]) = Score(query, entries[j]) /\ i <= j
         IN <<best>> \o RankFrom(query, entries, left \ {best})

\* vectordb.similarity_search(query, k): up to k entries, nearest first
similarity_search(vectordb, query, k) ==
    LET order == RankFrom(query, vectordb.entries, 1..Len(vectordb.entries))
        n == IF k < Len(order) THEN k ELSE Len(order)
    IN [i \in 1..n |-> vectordb.entries[order[i]]]

\* self.retriever on a query: [exc, docs]. The retriever was made at
\* construction with search_kwargs k = top_k of that time. The query is
\* embedded with self.embedding: that call may fail (embed_ok = FALSE), and
\* a query vector of another width than the index's is refused by the index.
retrieve(self, query, embed_ok) ==
    IF ~embed_ok THEN [exc |-> "EmbeddingError", docs |-> <<>>]
    ELSE IF self.vectordb.emb # self.embedding_type
    THEN [exc |-> "AssertionError", docs |-> <<>>]
    ELSE [exc |-> "none",
          docs |-> similarity_search(self.vectordb, query, self.retriever_k)]

\* combine_docs of _build_chain
\* (variants: a placeholder for no chunks; a single newline between chunks)
combine_docs_placeholder(docs) ==
    IF docs = <<>> THEN <<"NoContext">>
    ELSE Join(<<NL, NL>>, [i \in 1..Len(docs) |-> docs[i].page_content])
combine_docs_one_newline(docs) ==
    Join(<<NL>>, [i \in 1..Len(docs) |-> docs[i].page_content])
combine_docs(docs) ==
    Join(<<NL, NL>>, [i \in 1..Len(docs) |-> docs[i].page_content])

\* the join of answer_stream
stream_context(docs) ==
    Join(<<NL, NL>>, [i \in 1..Len(docs) |-> docs[i].page_content])

\* doc.metadata.get('source', 'Unknown')
metadata_source(doc) ==
    IF "source" \in DOMAIN doc.metadata THEN doc.metadata.source ELSE "Unknown"

sources_of(docs) == [i \in 1..Len(docs) |-> metadata_source(docs[i])]

Event(fn, arg, n) == [fn |-> fn, arg |-> arg, n |-> n]

Apology(exc) == <<"Sorry:", exc>>

Result(answer, context, sources) ==
    [answer |-> answer, context |-> context, sources |-> sources]

\* the documents answer fetches for its sources (the second retrieval)
\* (variant: the raw question is searched instead of the enhanced one)
answer_source_docs_raw_question(self, question, enhanced_question, embed_ok) ==
    retrieve(self, question, embed_ok)
answer_source_docs(self, question, enhanced_question, embed_ok) ==
    retrieve(self, enhanced_question, embed_ok)

\* what answer returns from its except clause
\* (variants: the exception leaves the method; the sources found are kept)
answer_failure_reraise(exc, stage, log, docs) ==
    [raised |-> TRUE, failed |-> stage,
     result |-> Result(<<>>, <<>>, <<>>), log |-> log, docs |-> docs]
answer_failure_keep_sources(exc, stage, log, docs) ==
    [raised |-> FALSE, failed |-> stage,
     result |-> Result(<<"Sorry:", exc>>, <<>>,
                       [i \in 1..Len(docs) |->
                           IF "source" \in DOMAIN docs[i].metadata
                           THEN docs[i].metadata.source ELSE "Unknown"]),
     log |-> log, docs |-> docs]
answer_failure(exc, stage, log, docs) ==
    [raised |-> FALSE, failed |-> stage,
     result |-> Result(Apology(exc), <<>>, <<>>), log |-> log, docs |-> docs]

\* LCELQaChain.answer. env: embed1, embed2 (the embedding call of each
\* retrieval succeeds), backend (the completion call).
\* The record keeps the result, whether an exception left the method, the
\* stage that failed, the calls made in order, and the chunks the chain
\* retrieved for the context.
answer(self, question, chat_history, env) ==
    IF question = <<>> \/ Len(Strip(question)) = 0
    THEN [raised |-> FALSE, failed |-> "none",
          result |-> Result(<<>>, <<>>, <<>>), log |-> <<>>, docs |-> <<>>]
    ELSE
    LET enh == enhance_question_with_history(question, chat_history)
        inputs == [question |-> enh.text]
        found == retrieve(self, inputs.question, env.embed1)
        context == combine_docs(found.docs)
        prompt == messages_to_text(qa_prompt(context, inputs.question))
        gen == ZhipuChatModel_generate(env.backend)
        again == answer_source_docs(self, question, enh.text, env.embed2)
        log1 == <<Event("retriever", inputs.question, self.retriever_k)>>
        log2 == log1 \o <<Event("qa_prompt", context, 0),
                          Event("llm", prompt, self.llm_temperature)>>
        log3 == log2 \o <<Event("get_relevant_documents", enh.text, self.retriever_k)>>
    IN IF enh.exc # "none" THEN answer_failure(enh.exc, "enhance", <<>>, <<>>)
       ELSE IF found.exc # "none" THEN answer_failure(found.exc, "retrieve", log1, <<>>)
       ELSE IF gen.exc # "none" THEN answer_failure(gen.exc, "generate", log2, found.docs)
       ELSE IF again.exc # "none" THEN answer_failure(again.exc, "sources", log3, found.docs)
       ELSE [raised |-> FALSE, failed |-> "none",
             result |-> Result(gen.text, context, sources_of(again.docs)),
             log |-> log3, docs |-> found.docs]

\* variant of the order of events: retrieval deferred until after the first
\* fragment was yielded
stream_trace_lazy(log, fragments) ==
    IF fragments = <<>> THEN log
    ELSE <<Event("yield", Head(fragments), 0)>> \o log
         \o [i \in 1..(Len(fragments) - 1) |-> Event("yield", fragments[i + 1], 0)]

\* the order of events of one answer_stream call: the calls made before the
\* loop over the backend's stream, then one yield per fragment
stream_trace(log, fragments) ==
    log \o [i \in 1..Len(fragments) |-> Event("yield", fragments[i], 0)]

\* variant of answer_stream without its try/except: a failure of the
\* enhancement or of the retrieval leaves the generator as an exception
answer_stream_unguarded(self, question, chat_history, env) ==
    IF question = <<>> \/ Len(Strip(question)) = 0
    THEN [raised |-> FALSE, failed |-> "none",
          fragments |-> << <<>> >>, context |-> <<>>, log |-> <<>>, docs |-> <<>>]
    ELSE
    LET enh == enhance_question_with_history(question, chat_history)
        found == retrieve(self, enh.text, env.embed1)
        context == stream_context(found.docs)
        prompt == qa_prompt(context, enh.text)
        log1 == <<Event("get_relevant_documents", enh.text, self.retriever_k)>>
        log2 == log1 \o <<Event("qa_prompt", context, 0),
                          Event("generate_stream", prompt, self.temperature)>>
    IN IF enh.exc # "none"
       THEN [raised |-> TRUE, failed |-> "enhance", fragments |-> <<>>,
             context |-> <<>>, log |-> <<>>, docs |-> <<>>]
       ELSE IF found.exc # "none"
       THEN [raised |-> TRUE, failed |-> "retrieve", fragments |-> <<>>,
             context |-> <<>>, log |-> log1, docs |-> <<>>]
       ELSE LET gen == ZhipuLLM_generate_stream(env.stream)
            IN [raised |-> gen.raised,
                failed |-> IF env.stream.fail_after = NoFail THEN "none" ELSE "generate",
                fragments |-> gen.fragments,
                context |-> context, log |-> log2, docs |-> found.docs]

\* LCELQaChain.answer_stream, consumed to its end. env: embed1, stream.
\* fragments are the values yielded, in order.
answer_stream_run(self, question, chat_history, env) ==
    IF question = <<>> \/ Len(Strip(question)) = 0
    THEN [raised |-> FALSE, failed |-> "none",
          fragments |-> << <<>> >>, context |-> <<>>, log |-> <<>>, docs |-> <<>>]
    ELSE
    LET enh == enhance_question_with_history(question, chat_history)
        found == retrieve(self, enh.text, env.embed1)
        context == stream_context(found.docs)
        prompt == qa_prompt(context, enh.text)
        log1 == <<Event("get_relevant_documents", enh.text, self.retriever_k)>>
        log2 == log1 \o <<Event("qa_prompt", context, 0),
                          Event("generate_stream", prompt, self.temperature)>>
    IN IF enh.exc # "none"
       THEN [raised |-> FALSE, failed |-> "enhance",
             fragments |-> <<Apology(enh.exc)>>, context |-> <<>>,
             log |-> <<>>, docs |-> <<>>]
       ELSE IF found.exc # "none"
       THEN [raised |-> FALSE, failed |-> "retrieve",
             fragments |-> <<Apology(found.exc)>>, context |-> <<>>,
             log |-> log1, docs |-> <<>>]
       ELSE LET gen == ZhipuLLM_generate_stream(env.stream)
            IN [raised |-> FALSE,
                failed |-> IF env.stream.fail_after = NoFail THEN "none" ELSE "generate",
                fragments |-> IF gen.raised
                              THEN gen.fragments \o <<Apology("APIError")>>
                              ELSE gen.fragments,
                context |-> context, log |-> log2, docs |-> found.docs]

answer_stream(self, question, chat_history, env) ==
    LET run == answer_stream_run(self, question, chat_history, env)
    IN [raised |-> run.raised, failed |-> run.failed, fragments |-> run.fragments,
        context |-> run.context, log |-> run.log, docs |-> run.docs,
        trace |-> stream_trace(run.log, run.fragments)]

---------------------------------------------------------------------------
(* qa_chain/lcel_chain.py: QaChainManager *)

NoObject == 0

IdleFrame ==
    [model_provider |-> None, model_name |-> None, embedding_type |-> None,
     key |-> <<>>, obj |-> NoObject, ret |-> NoObject, exc |-> "none",
     hit |-> NoObject, heap0 |-> 0, fs0 |-> NoIndex, index_states |-> <<>>]

NoOut == [op |-> "none"]

\* `key not in self.chains`
\* (variant: the cache is never consulted)
CacheMissAlways(cache, key) == TRUE
CacheMiss(cache, key) == cache[key] = NoObject

\* entering get_chain: the arguments are bound and the key is formatted.
\* hit and heap0 record the cache entry and the number of objects at entry.
Call(t, r) ==
    /\ pc[t] \in {"idle", "done"}
    /\ calls < MaxCalls
    /\ calls' = calls + 1
    /\ LET key == ChainKey(r[1], r[2], r[3])
       IN frame' = [frame EXCEPT ![t] =
                       [model_provider |-> r[1], model_name |-> r[2],
                        embedding_type |-> r[3], key |-> key,
                        obj |-> NoObject, ret |-> NoObject, exc |-> "none",
                        hit |-> chains[key], heap0 |-> Len(heap),
                        fs0 |-> fs, index_states |-> <<>>]]
    /\ pc' = [pc EXCEPT ![t] = "check"]
    /\ UNCHANGED <<fs, knowledge_db, api_keys, chains, heap, built, out>>

\* if key not in self.chains:
Check(t) ==
    /\ pc[t] = "check"
    /\ pc' = [pc EXCEPT ![t] =
                 IF CacheMiss(chains, frame[t].key) THEN "construct" ELSE "return"]
    /\ UNCHANGED <<fs, knowledge_db, api_keys, chains, heap, frame, built, calls, out>>

\* LCELQaChain(model_provider=..., model_name=..., embedding_type=...)
\* (variant: the object under construction is entered into the cache before
\* its constructor has finished, and stays there when it fails)
Construct_stores_first(t) ==
    /\ pc[t] = "construct"
    /\ LET f == frame[t]
           r == LCELQaChain_init(f.model_provider, f.model_name, f.embedding_type,
                                 fs, api_keys, knowledge_db)
       IN /\ fs' = r.fs
          /\ Len(heap) < MaxObjects
          /\ heap' = Append(heap, r.obj)
          /\ chains' = [chains EXCEPT ![f.key] = Len(heap) + 1]
          /\ built' = [built EXCEPT ![f.key] = @ + 1]
          /\ IF r.exc = "none"
             THEN /\ frame' = [frame EXCEPT ![t].obj = Len(heap) + 1,
                                            ![t].fs0 = fs,
                                            ![t].index_states = r.states]
                  /\ pc' = [pc EXCEPT ![t] = "store"]
             ELSE /\ frame' = [frame EXCEPT ![t].exc = r.exc,
                                            ![t].fs0 = fs,
                                            ![t].index_states = r.states]
                  /\ pc' = [pc EXCEPT ![t] = "done"]
    /\ UNCHANGED <<knowledge_db, api_keys, calls, out>>

Construct(t) ==
    /\ pc[t] = "construct"
    /\ LET f == frame[t]
           r == LCELQaChain_init(f.model_provider, f.model_name, f.embedding_type,
                                 fs, api_keys, knowledge_db)
       IN /\ fs' = r.fs
          /\ IF r.exc = "none"
             THEN /\ Len(heap) < MaxObjects
                  /\ heap' = Append(heap, r.obj)
                  /\ frame' = [frame EXCEPT ![t].obj = Len(heap) + 1,
                                            ![t].fs0 = fs,
                                            ![t].index_states = r.states]
                  /\ built' = [built EXCEPT ![f.key] = @ + 1]
                  /\ pc' = [pc EXCEPT ![t] = "store"]
             ELSE /\ frame' = [frame EXCEPT ![t].exc = r.exc,
                                            ![t].fs0 = fs,
                                            ![t].index_states = r.states]
                  /\ pc' = [pc EXCEPT ![t] = "done"]
                  /\ UNCHANGED <<heap, built>>
    /\ UNCHANGED <<knowledge_db, api_keys, chains, calls, out>>

\* self.chains[key] = <the new object>
Store(t) ==
    /\ pc[t] = "store"
    /\ chains' = [chains EXCEPT ![frame[t].key] = frame[t].obj]
    /\ pc' = [pc EXCEPT ![t] = "return"]
    /\ UNCHANGED <<fs, knowledge_db, api_keys, heap, frame, built, calls, out>>

\* return self.chains[key]
Return(t) ==
    /\ pc[t] = "return"
    /\ frame' = [frame EXCEPT ![t] =
                    IF chains[frame[t].key] = NoObject
                    THEN [@ EXCEPT !.exc = "KeyError"]
                    ELSE [@ EXCEPT !.ret = chains[frame[t].key]]]
    /\ pc' = [pc EXCEPT ![t] = "done"]
    /\ UNCHANGED <<fs, knowledge_db, api_keys, chains, heap, built, calls, out>>

\* clear_chains: self.chains.clear()
ClearChains ==
    /\ \E k \in Keys : chains[k] # NoObject
    /\ chains' = [k \in Keys |-> NoObject]
    /\ built' = [k \in Keys |-> 0]
    /\ UNCHANGED <<fs, knowledge_db, api_keys, heap, pc, frame, calls, out>>

---------------------------------------------------------------------------
(* Callers of a chain: serve/gradio_app.py respond, respond_stream *)

T1 == << <<"a">>, <<"x">> >>
T2 == << <<"b">>, <<"y">> >>
T3 == << <<"c">>, <<"z">> >>
T4 == << <<"d">>, <<"w">> >>
BadTurn == << <<"a">> >>

Questions == { <<>>, <<" ">>, <<"a">>, <<"b", "c">> }
Histories == { <<>>, <<T2>>, <<T2, T3, T4>>, <<T1, T2, T3, T4>>, <<BadTurn>> }
Backends == { BackendOk(<<"ans">>), BackendOk(<<>>), BackendEmpty, BackendError }
Streams ==
    { [chunks |-> << <<"x">>, <<>>, <<"y">> >>, fail_after |-> NoFail],
      [chunks |-> << <<"x">>, <<>>, <<"y">> >>, fail_after |-> 2],
      [chunks |-> <<>>, fail_after |-> 0] }
\* the sliders' values: temperature in tenths, top_k
SliderValues == { <<1, 4>>, <<7, 1>> }

\* the environment of one answer call: whether each embedding call succeeds
\* and what the completion call does (what follows a failure is not reached)
AnswerEnvs ==
    { [embed1 |-> FALSE, embed2 |-> TRUE, backend |-> BackendError],
      [embed1 |-> TRUE, embed2 |-> TRUE, backend |-> BackendError],
      [embed1 |-> TRUE, embed2 |-> TRUE, backend |-> BackendEmpty],
      [embed1 |-> TRUE, embed2 |-> TRUE, backend |-> BackendOk(<<"ans">>)],
      [embed1 |-> TRUE, embed2 |-> FALSE, backend |-> BackendOk(<<"ans">>)],
      [embed1 |-> TRUE, embed2 |-> TRUE, backend |-> BackendOk(<<>>)] }

StreamEnvs ==
    { [embed1 |-> FALSE, stream |-> [chunks |-> <<>>, fail_after |-> NoFail]] }
    \cup { [embed1 |-> TRUE, stream |-> s] : s \in Streams }

\* chain = self.qa_manager.get_chain(...): the handler holds what the call
\* returned and has not yet asked its question
HasChain(t) == pc[t] = "done" /\ frame[t].ret # NoObject /\ out = NoOut

\* chain.temperature = temp; chain.top_k = top_k
SetParams(t, v) ==
    /\ HasChain(t)
    /\ heap' = [heap EXCEPT ![frame[t].ret].temperature = v[1],
                            ![frame[t].ret].top_k = v[2]]
    /\ UNCHANGED <<fs, knowledge_db, api_keys, chains, pc, frame, built, calls, out>>

\* result = chain.answer(message, history)
Answer(t, question, chat_history, env) ==
    /\ HasChain(t)
    /\ out' = [op |-> "answer", question |-> question, chat_history |-> chat_history,
               env |-> env, chain |-> frame[t].ret,
               ret |-> answer(heap[frame[t].ret], question, chat_history, env)]
    /\ UNCHANGED <<fs, knowledge_db, api_keys, chains, heap, pc, frame, built, calls>>

\* for chunk in chain.answer_stream(message, history)
AnswerStream(t, question, chat_history, env) ==
    /\ HasChain(t)
    /\ out' = [op |-> "answer_stream", question |-> question,
               chat_history |-> chat_history, env |-> env, chain |-> frame[t].ret,
               ret |-> answer_stream(heap[frame[t].ret], question, chat_history, env)]
    /\ UNCHANGED <<fs, knowledge_db, api_keys, chains, heap, pc, frame, built, calls>>

\* the handler returns: `return "", history`
RespondReturn ==
    /\ out # NoOut
    /\ out' = NoOut
    /\ UNCHANGED <<fs, knowledge_db, api_keys, chains, heap, pc, frame, built, calls>>

---------------------------------------------------------------------------
(* database/create_db.py: a caller of DatabaseManager.split_documents *)

\* chunk_size / chunk_overlap as a caller passes them (IntNone: omitted)
ChunkParams == {IntNone, 0, 1, 2, 3}

SplitInputs ==
    { <<>>,
      << Doc(<<"a", "b", "c", "d", "e">>, "s1"), Doc(<<"f">>, "s2") >> }

\* split_docs = manager.split_documents(documents, chunk_size, chunk_overlap)
SplitDocuments(documents, chunk_size, chunk_overlap) ==
    /\ out = NoOut
    /\ pc[MainThread] = "idle"
    /\ out' = [op |-> "split", documents |-> documents,
               chunk_size |-> chunk_size, chunk_overlap |-> chunk_overlap,
               ret |-> split_documents(documents, chunk_size, chunk_overlap)]
    /\ UNCHANGED <<fs, knowledge_db, api_keys, chains, heap, pc, frame, built, calls>>

\* the caller is done with the chunks
SplitReturn ==
    /\ out # NoOut
    /\ out.op = "split"
    /\ out' = NoOut
    /\ UNCHANGED <<fs, knowledge_db, api_keys, chains, heap, pc, frame, built, calls>>

---------------------------------------------------------------------------
(* database/create_db.py: main(), the database tool *)

\* --embedding choices
EmbeddingChoices == {OpenAI, M3E}

\* --action create
DbCreate(embedding_type) ==
    /\ out = NoOut
    /\ pc[MainThread] \in {"idle", "done"}
    /\ LET r == create_vector_db(embedding_type, fs, api_keys, knowledge_db)
       IN /\ fs' = r.fs
          /\ out' = [op |-> "db_create", embedding_type |-> embedding_type,
                     fs0 |-> fs, ret |-> [exc |-> r.exc, none |-> r.none,
                                          vectordb |-> r.vectordb]]
    /\ UNCHANGED <<knowledge_db, api_keys, chains, heap, pc, frame, built, calls>>

\* --action load
DbLoad(embedding_type) ==
    /\ out = NoOut
    /\ pc[MainThread] \in {"idle", "done"}
    /\ fs' = DatabaseManager_init(fs)
    /\ out' = [op |-> "db_load", embedding_type |-> embedding_type, fs0 |-> fs,
               ret |-> load_vector_db(embedding_type, fs, api_keys)]
    /\ UNCHANGED <<knowledge_db, api_keys, chains, heap, pc, frame, built, calls>>

\* main() returns
DbExit ==
    /\ out # NoOut
    /\ out.op \in {"db_create", "db_load"}
    /\ out' = NoOut
    /\ UNCHANGED <<fs, knowledge_db, api_keys, chains, heap, pc, frame, built, calls>>

---------------------------------------------------------------------------
(* database/rebuild_faiss_db.py *)

\* shutil.rmtree(vector_db_path); os.makedirs(vector_db_path): the directory
\* that holds the index path is emptied, the index path itself is gone
rmtree_vector_db(files) == NoIndex

\* rebuild_faiss_database(): [ret, fs]; ret is the value returned
rebuild_faiss_database(files, keys, documents) ==
    LET files1 == rmtree_vector_db(files)
        made == create_vector_db(M3E, files1, keys, documents)
    IN [ret |-> made.exc = "none" /\ ~made.none, fs |-> made.fs]

\* python rebuild_faiss_db.py
Rebuild ==
    /\ out = NoOut
    /\ pc[MainThread] \in {"idle", "done"}
    /\ LET r == rebuild_faiss_database(fs, api_keys, knowledge_db)
       IN /\ fs' = r.fs
          /\ out' = [op |-> "rebuild", fs0 |-> fs, ret |-> r.ret]
    /\ UNCHANGED <<knowledge_db, api_keys, chains, heap, pc, frame, built, calls>>

\* the tool's process ends
RebuildExit ==
    /\ out # NoOut
    /\ out.op = "rebuild"
    /\ out' = NoOut
    /\ UNCHANGED <<fs, knowledge_db, api_keys, chains, heap, pc, frame, built, calls>>

---------------------------------------------------------------------------
(* llm/zhipu_llm.py, llm/openai_llm.py: main(), the test program of a backend *)

\* what the remote service does during one run: the deltas of its reply
\* (their concatenation is the content of the non-streaming reply), whether
\* the reply has choices, and after how many deltas the call fails
LLMBehaviours ==
    { [chunks |-> << <<"x">>, <<>>, <<"y">> >>, choices |-> TRUE, fail_after |-> NoFail],
      [chunks |-> << <<"x">>, <<>>, <<"y">> >>, choices |-> TRUE, fail_after |-> 2],
      [chunks |-> << <<"x">>, <<>>, <<"y">> >>, choices |-> TRUE, fail_after |-> 0],
      [chunks |-> << <<"x", "y">> >>, choices |-> TRUE, fail_after |-> NoFail],
      [chunks |-> <<>>, choices |-> TRUE, fail_after |-> NoFail],
      [chunks |-> <<>>, choices |-> FALSE, fail_after |-> NoFail] }

\* the non-streaming call against that behaviour
Reply(b) ==
    IF b.fail_after # NoFail THEN BackendError
    ELSE IF ~b.choices THEN BackendEmpty
    ELSE BackendOk(Join(<<>>, b.chunks))

\* the stream=True call against that behaviour
StreamOf(b) == [chunks |-> b.chunks, fail_after |-> b.fail_after]

LLMs == {Zhipu, OpenAI}

NotCalled == [raised |-> FALSE, none |-> FALSE, text |-> <<"<not called>">>]
NotStreamed == [raised |-> FALSE, fragments |-> << <<"<not called>">> >>]

\* llm = ZhipuLLM(model=args.model) / OpenAILLM(model=args.model)
LLMMainCreate(llm, b) ==
    /\ out = NoOut
    /\ pc[MainThread] = "idle"
    /\ LET has_key == IF llm = Zhipu THEN api_keys.zhipu ELSE api_keys.openai
       IN out' = [op |-> "llm_main", llm |-> llm, behaviour |-> b,
                  step |-> IF has_key THEN "created" ELSE "failed",
                  exc |-> IF has_key THEN "none" ELSE "ValueError",
                  response |-> NotCalled, stream |-> NotStreamed]
    /\ UNCHANGED <<fs, knowledge_db, api_keys, chains, heap, pc, frame, built, calls>>

\* response = llm.generate(args.prompt)
LLMMainGenerate ==
    /\ out # NoOut
    /\ out.op = "llm_main"
    /\ out.step = "created"
    /\ LET response == IF out.llm = Zhipu
                       THEN ZhipuLLM_generate(Reply(out.behaviour))
                       ELSE OpenAILLM_generate(Reply(out.behaviour))
       IN out' = [out EXCEPT !.response = response,
                             !.step = IF response.raised THEN "failed" ELSE "generated",
                             !.exc = IF response.raised THEN "APIError" ELSE "none"]
    /\ UNCHANGED <<fs, knowledge_db, api_keys, chains, heap, pc, frame, built, calls>>

\* for chunk in llm.generate_stream(args.prompt): print(chunk, ...)
LLMMainStream ==
    /\ out # NoOut
    /\ out.op = "llm_main"
    /\ out.step = "generated"
    /\ LET stream == IF out.llm = Zhipu
                     THEN ZhipuLLM_generate_stream(StreamOf(out.behaviour))
                     ELSE OpenAILLM_generate_stream(StreamOf(out.behaviour))
       IN out' = [out EXCEPT !.stream = stream,
                             !.step = IF stream.raised THEN "failed" ELSE "streamed",
                             !.exc = IF stream.raised THEN "APIError" ELSE "none"]
    /\ UNCHANGED <<fs, knowledge_db, api_keys, chains, heap, pc, frame, built, calls>>

\* main() returns
LLMMainExit ==
    /\ out # NoOut
    /\ out.op = "llm_main"
    /\ out.step \in {"streamed", "failed"}
    /\ out' = NoOut
    /\ UNCHANGED <<fs, knowledge_db, api_keys, chains, heap, pc, frame, built, calls>>

---------------------------------------------------------------------------
(* serve/streamlit_app.py: one browser session *)

\* st.session_state.qa_manager = None
NoManager == 0

\* _init_session_state on an empty session state. environ is os.environ, which
\* the configuration was read from at import.
NewSession ==
    [op |-> "session", last |-> "init", qa_manager |-> NoManager,
     api_configured |-> FALSE, current_model |-> Zhipu, current_embedding |-> M3E,
     messages |-> <<>>, environ |-> api_keys]

InSession == out # NoOut /\ out.op = "session"

\* StreamlitApp.__init__ in the first run of the script
SessionInit ==
    /\ out = NoOut
    /\ pc[MainThread] = "idle"
    /\ out' = NewSession
    /\ UNCHANGED <<fs, knowledge_db, api_keys, chains, heap, pc, frame, built, calls>>

\* the session state _configure_api leaves. manager: the new QaChainManager,
\* exc: what its get_chain raised.
configure_api(session, provider, embedding, manager, exc) ==
    LET environ == IF provider = Zhipu
                   THEN [session.environ EXCEPT !.zhipu = TRUE]
                   ELSE [session.environ EXCEPT !.openai = TRUE]
    IN IF exc = "none"
       THEN [session EXCEPT !.environ = environ, !.qa_manager = manager,
                            !.current_model = provider,
                            !.current_embedding = embedding,
                            !.api_configured = TRUE, !.last = "configured"]
       ELSE [session EXCEPT !.environ = environ, !.api_configured = FALSE,
                            !.last = "configure_failed"]

\* what _auto_configure_api asks for: zhipu when its key is in the
\* environment, else openai when its key is, else nothing
AutoRequest(environ) ==
    IF environ.zhipu THEN <<Zhipu, default_model, M3E>>
    ELSE IF environ.openai THEN <<OpenAI, gpt35, OpenAI>>
    ELSE <<>>

\* variant of _auto_configure_api that marks the API configured although the
\* test chain could not be built
auto_configure_api_optimistic(session, provider, embedding, manager, exc) ==
    IF exc = "none"
    THEN [session EXCEPT !.qa_manager = manager, !.current_model = provider,
                         !.current_embedding = embedding,
                         !.api_configured = TRUE, !.last = "auto_configured"]
    ELSE [session EXCEPT !.api_configured = TRUE, !.last = "auto_failed"]

\* the session state _auto_configure_api leaves after its get_chain
auto_configure_api(session, provider, embedding, manager, exc) ==
    IF exc = "none"
    THEN [session EXCEPT !.qa_manager = manager, !.current_model = provider,
                         !.current_embedding = embedding,
                         !.api_configured = TRUE, !.last = "auto_configured"]
    ELSE [session EXCEPT !.last = "auto_failed"]

\* qa_manager = QaChainManager(); test_chain = qa_manager.get_chain(...):
\* the cache of the new manager is empty, so the pipeline is constructed
TestChain(r, made) ==
    /\ calls < MaxCalls
    /\ calls' = calls + 1
    /\ fs' = made.fs
    /\ IF made.exc = "none"
       THEN /\ Len(heap) < MaxObjects
            /\ heap' = Append(heap, made.obj)
            /\ chains' = [k \in Keys |->
                             IF k = ChainKey(r[1], r[2], r[3])
                             THEN Len(heap) + 1 ELSE NoObject]
            /\ built' = [built EXCEPT ![ChainKey(r[1], r[2], r[3])] = @ + 1]
       ELSE UNCHANGED <<heap, chains, built>>

\* if not st.session_state.api_configured: self._auto_configure_api()
AutoConfigure ==
    /\ InSession
    /\ ~out.api_configured
    /\ LET r == AutoRequest(out.environ)
       IN IF r = <<>>
          THEN /\ out' = [out EXCEPT !.last = "auto_no_key"]
               /\ UNCHANGED <<fs, chains, heap, built, calls>>
          ELSE LET made == LCELQaChain_init(r[1], r[2], r[3], fs, api_keys,
                                            knowledge_db)
               IN /\ TestChain(r, made)
                  /\ out' = auto_configure_api(out, r[1], r[3], calls + 1, made.exc)
    /\ UNCHANGED <<knowledge_db, api_keys, pc, frame>>

\* the button "手动配置 API" with an API key typed in
ManualConfigure(r) ==
    /\ InSession
    /\ LET made == LCELQaChain_init(r[1], r[2], r[3], fs, api_keys, knowledge_db)
       IN /\ TestChain(r, made)
          /\ out' = configure_api(out, r[1], r[3], calls + 1, made.exc)
    /\ UNCHANGED <<knowledge_db, api_keys, pc, frame>>

Message(role, content) == [role |-> role, content |-> content]

\* f"处理问题时出现错误: {e}"
ChatError(exc) == <<"ChatError:", exc>>

\* a chat input without a configured API: st.error(...) and return
ChatRefused ==
    /\ InSession
    /\ ~out.api_configured
    /\ out' = [out EXCEPT !.last = "chat_refused"]
    /\ UNCHANGED <<fs, knowledge_db, api_keys, chains, heap, pc, frame, built, calls>>

\* a chat input with a configured API: get_chain on the session's manager,
\* the sliders' values are set on the chain, and the stream is consumed
ChatInput(prompt, v, env) ==
    /\ InSession
    /\ out.api_configured
    /\ calls < MaxCalls
    /\ calls' = calls + 1
    /\ LET user == Message("user", prompt)
           key == ChainKey(out.current_model, None, out.current_embedding)
           made == LCELQaChain_init(out.current_model, None, out.current_embedding,
                                    fs, api_keys, knowledge_db)
       IN IF out.qa_manager = NoManager
          THEN /\ out' = [out EXCEPT
                            !.messages = @ \o <<user, Message("assistant",
                                                    ChatError("AttributeError"))>>,
                            !.last = "chat_failed"]
               /\ UNCHANGED <<fs, chains, heap, built>>
          ELSE IF chains[key] = NoObject /\ made.exc # "none"
          THEN /\ fs' = made.fs
               /\ out' = [out EXCEPT
                            !.messages = @ \o <<user, Message("assistant",
                                                              ChatError(made.exc))>>,
                            !.last = "chat_failed"]
               /\ UNCHANGED <<chains, heap, built>>
          ELSE LET miss == chains[key] = NoObject
                   chain == IF miss THEN Len(heap) + 1 ELSE chains[key]
                   heap1 == IF miss THEN Append(heap, made.obj) ELSE heap
                   heap2 == [heap1 EXCEPT ![chain].temperature = v[1],
                                          ![chain].top_k = v[2]]
                   run == answer_stream(heap2[chain], prompt, <<>>, env)
               IN /\ miss => Len(heap) < MaxObjects
                  /\ fs' = IF miss THEN made.fs ELSE fs
                  /\ chains' = [chains EXCEPT ![key] = chain]
                  /\ built' = IF miss THEN [built EXCEPT ![key] = @ + 1] ELSE built
                  /\ heap' = heap2
                  /\ out' = [out EXCEPT
                               !.messages = @ \o <<user, Message("assistant",
                                                       Join(<<>>, run.fragments))>>,
                               !.last = "chat_answered"]
    /\ UNCHANGED <<knowledge_db, api_keys, pc, frame>>

\* the button "清除对话历史"
ClearHistory ==
    /\ InSession
    /\ out.messages # <<>>
    /\ out' = [out EXCEPT !.messages = <<>>, !.last = "cleared"]
    /\ UNCHANGED <<fs, knowledge_db, api_keys, chains, heap, pc, frame, built, calls>>

\* what a user types into the chat input
Prompts == { <<" ">>, <<"a">> }

---------------------------------------------------------------------------
(* Specifications *)

\* a new QaChainManager over some state of the disk and of the configuration
InitOver(corpora) ==
    /\ fs \in {NoIndex, EmptyDir, Index(M3E, Corpus), Index(OpenAI, SmallCorpus),
               Index(M3E, <<>>)}
    /\ knowledge_db \in corpora
    /\ api_keys \in {[zhipu |-> TRUE, openai |-> TRUE],
                     [zhipu |-> TRUE, openai |-> FALSE],
                     [zhipu |-> FALSE, openai |-> FALSE]}
    /\ chains = [k \in Keys |-> NoObject]
    /\ heap = <<>>
    /\ pc = [t \in Threads |-> "idle"]
    /\ frame = [t \in Threads |-> IdleFrame]
    /\ built = [k \in Keys |-> 0]
    /\ calls = 0
    /\ out = NoOut

Init == InitOver({<<>>, Corpus})

\* the database tool also meets a knowledge base without any text
InitIndex == InitOver({<<>>, Corpus, BlankCorpus})

GetChainStep(t) ==
    \/ \E r \in Requests : Call(t, r)
    \/ Check(t)
    \/ Construct(t)
    \/ Store(t)
    \/ Return(t)

\* several threads inside get_chain of one manager, as under the Gradio server
NextConc == \E t \in Threads : GetChainStep(t)

SpecConc == Init /\ [][NextConc]_vars

\* one caller at a time on one manager: get_chain and clear_chains
Next ==
    \/ GetChainStep(MainThread)
    \/ pc[MainThread] \in {"idle", "done"} /\ ClearChains

Spec == Init /\ [][Next]_vars

\* one thread inside get_chain while another thread calls clear_chains at any
\* moment
NextClear ==
    \/ GetChainStep(MainThread)
    \/ ClearChains

SpecClear == Init /\ [][NextClear]_vars

\* one caller obtains a chain, sets its parameters and asks questions
MaxChains == 1

NextAnswer ==
    \/ calls < MaxChains /\ out = NoOut /\ \E r \in Requests : Call(MainThread, r)
    \/ Check(MainThread)
    \/ Construct(MainThread)
    \/ Store(MainThread)
    \/ Return(MainThread)
    \/ \E v \in SliderValues : SetParams(MainThread, v)
    \/ \E q \in Questions, h \in Histories, e \in AnswerEnvs :
          Answer(MainThread, q, h, e)
    \/ \E q \in Questions, h \in Histories, e \in StreamEnvs :
          AnswerStream(MainThread, q, h, e)
    \/ RespondReturn

SpecAnswer == Init /\ [][NextAnswer]_vars

\* one caller of get_chain on one manager, and runs of the database tool
\* between its calls
NextIndex ==
    \/ out = NoOut /\ GetChainStep(MainThread)
    \/ \E e \in EmbeddingChoices : DbCreate(e)
    \/ \E e \in EmbeddingChoices : DbLoad(e)
    \/ DbExit

SpecIndex == InitIndex /\ [][NextIndex]_vars

\* the test program of a backend: create, generate, generate_stream
NextLLM ==
    \/ \E llm \in LLMs, b \in LLMBehaviours : LLMMainCreate(llm, b)
    \/ LLMMainGenerate
    \/ LLMMainStream
    \/ LLMMainExit

SpecLLM == Init /\ [][NextLLM]_vars

\* calls of split_documents with the caller's parameters
NextSplit ==
    \/ \E d \in SplitInputs, s \in ChunkParams, o \in ChunkParams :
          SplitDocuments(d, s, o)
    \/ SplitReturn

SpecSplit == Init /\ [][NextSplit]_vars

\* one caller of get_chain on one manager, and runs of the rebuild tool
\* between its calls
NextRebuild ==
    \/ out = NoOut /\ GetChainStep(MainThread)
    \/ Rebuild
    \/ RebuildExit

SpecRebuild == Init /\ [][NextRebuild]_vars

\* one Streamlit session: the script runs again after every input
NextSession ==
    \/ SessionInit
    \/ AutoConfigure
    \/ \E r \in ManualChoices : ManualConfigure(r)
    \/ ChatRefused
    \/ \E p \in Prompts, v \in SliderValues, e \in StreamEnvs : ChatInput(p, v, e)
    \/ ClearHistory

SpecSession == Init /\ [][NextSession]_vars

---------------------------------------------------------------------------
(* Claims *)

\* C1: when several callers invoke get_chain concurrently for one key that
\* is not cached, the pipeline of that key is constructed exactly once.
C1_ConstructedOncePerKey ==
    /\ \A k \in Keys : built[k] <= 1
    /\ \A t \in Threads :
          pc[t] = "done" /\ frame[t].ret # NoObject => built[frame[t].key] = 1

\* C2: all callers of get_chain for one key whose call returns receive the
\* same instance, and that instance is the one stored under the key.
C2_SameInstanceReturned ==
    \A t, u \in Threads :
        ( /\ pc[t] = "done" /\ frame[t].ret # NoObject
          /\ pc[u] = "done" /\ frame[u].ret # NoObject
          /\ frame[t].key = frame[u].key )
        => /\ frame[t].ret = frame[u].ret
           /\ chains[frame[t].key] = frame[t].ret

\* C3: in a sequential series of get_chain calls, a call whose key is cached
\* returns the cached instance and constructs nothing; between two
\* clear_chains each key is constructed at most once.
C3_CachedCallReusesInstance ==
    /\ \A k \in Keys : built[k] <= 1
    /\ \A k \in Keys : chains[k] # NoObject => built[k] = 1
    /\ \A t \in Threads :
          pc[t] = "done" /\ frame[t].hit # NoObject
          => /\ frame[t].exc = "none"
             /\ frame[t].ret = frame[t].hit
             /\ Len(heap) = frame[t].heap0

C3_Witness ==
    \E t \in Threads :
        /\ pc[t] = "done"
        /\ frame[t].hit # NoObject
        /\ frame[t].ret = frame[t].hit
        /\ calls >= 2

\* the configuration a pipeline runs with
EffectiveConfig(obj) == <<obj.model_provider, obj.model_name, obj.embedding_type>>

\* C4: the cache never holds two pipelines for the same effective
\* configuration (provider, resolved model name, embedding kind).
C4_OnePipelinePerConfiguration ==
    \A k1, k2 \in Keys :
        ( /\ chains[k1] # NoObject
          /\ chains[k2] # NoObject
          /\ EffectiveConfig(heap[chains[k1]]) = EffectiveConfig(heap[chains[k2]]) )
        => k1 = k2

IsApology(text) == Len(text) >= 1 /\ text[1] = "Sorry:"

\* C5: answer never lets an exception reach its caller; when enhancement,
\* retrieval or generation fails it returns an answer text that reports the
\* failure, with an empty sources list.
C5_AnswerNeverRaises ==
    out.op = "answer"
    => /\ ~out.ret.raised
       /\ out.ret.failed # "none"
          => /\ IsApology(out.ret.result.answer)
             /\ out.ret.result.sources = <<>>

C5_Witness ==
    /\ out.op = "answer"
    /\ out.ret.failed = "retrieve"
    /\ out.chat_history # <<>>

\* C6 as stated: when retrieval succeeded and only the generation fails, the
\* result still lists the sources of the retrieved chunks.
C6_SourcesSurviveGenerationFailure ==
    (out.op = "answer" /\ out.ret.failed = "generate")
    => out.ret.result.sources = sources_of(out.ret.docs)

\* C6 amended: sources are fetched by a second retrieval that runs only after
\* the generation succeeded; when retrieval succeeded and the generation
\* fails, that retrieval never runs and the result has an empty sources list
\* and an empty context.
C6_GenerationFailureEmptiesSources ==
    out.op = "answer"
    => /\ \A i, j \in 1..Len(out.ret.log) :
             (out.ret.log[i].fn = "get_relevant_documents" /\ out.ret.log[j].fn = "llm")
             => j < i
       /\ out.ret.failed = "generate"
          => /\ out.ret.result.sources = <<>>
             /\ out.ret.result.context = <<>>
             /\ \A i \in 1..Len(out.ret.log) :
                   out.ret.log[i].fn # "get_relevant_documents"

C6_Witness ==
    /\ out.op = "answer"
    /\ out.ret.failed = "generate"
    /\ Len(out.ret.docs) >= 2

\* the retrieval of an answer call ran and returned no chunk
ZeroChunks ==
    /\ out.op = "answer"
    /\ Len(out.ret.log) >= 1
    /\ out.ret.failed # "retrieve"
    /\ out.ret.docs = <<>>

\* C7: when retrieval returns zero chunks, answer goes on: the context is the
\* empty text, the QA prompt is rendered with it, the generator is called,
\* and, the generator answering, the result has that answer, an empty
\* context and an empty sources list.
C7_EmptyRetrievalProceeds ==
    ZeroChunks
    => /\ Len(out.ret.log) >= 3
       /\ out.ret.log[2] = Event("qa_prompt", <<>>, 0)
       /\ out.ret.log[3].fn = "llm"
       /\ out.ret.log[3].arg = messages_to_text(qa_prompt(<<>>, out.ret.log[1].arg))
       /\ (out.env.backend.kind = "ok" /\ out.env.embed2)
          => /\ out.ret.failed = "none"
             /\ out.ret.result = Result(out.env.backend.text, <<>>, <<>>)

C7_Witness ==
    /\ ZeroChunks
    /\ out.ret.failed = "none"
    /\ out.ret.result.answer = <<"ans">>

\* the index is in the Empty state: nothing is persisted at the index path
\* and the corpus has no documents
EmptyState == ~fs.present /\ knowledge_db = <<>>

\* the request names a supported provider and embedding whose keys are set
Buildable(f) ==
    /\ init_llm(f.model_provider, api_keys) = "none"
    /\ init_embedding(f.embedding_type, api_keys) = "none"
    /\ build_chain(f.model_provider) = "none"

\* C8 as stated: over an empty knowledge base a pipeline can be obtained (and
\* then queried, its retrieval returning an empty sequence).
C8_EmptyIndexPipelineObtained ==
    \A t \in Threads :
        (pc[t] = "done" /\ EmptyState /\ Buildable(frame[t]))
        => /\ frame[t].exc = "none"
           /\ frame[t].ret # NoObject
           /\ heap[frame[t].ret].vectordb.entries = <<>>

\* C8 amended: in the Empty state the construction of a pipeline raises (the
\* build path reports that no documents were found; once the index directory
\* exists the load fails), so get_chain returns no pipeline, caches nothing,
\* and no retrieval ever runs against an Empty index.
C8_EmptyStateConstructionRaises ==
    /\ [][\A t \in Threads :
             (EmptyState /\ pc[t] = "construct" /\ pc'[t] # "construct")
             => /\ pc'[t] = "done"
                /\ frame'[t].exc # "none"
                /\ Buildable(frame[t]) => frame'[t].exc \in {"Exception", "RuntimeError"}
                /\ frame'[t].ret = NoObject
                /\ heap' = heap /\ chains' = chains
                /\ EmptyState']_vars
    /\ [](EmptyState
          => /\ heap = <<>>
             /\ \A k \in Keys : chains[k] = NoObject
             /\ \A t \in Threads :
                   pc[t] = "done" => frame[t].exc # "none" /\ frame[t].ret = NoObject)

C8_Witness ==
    \E t \in Threads :
        /\ EmptyState
        /\ pc[t] = "done"
        /\ Buildable(frame[t])
        /\ frame[t].exc = "Exception"

\* where the text of the i-th chunk starts in the joined context
RECURSIVE Offset(_, _)
Offset(docs, i) ==
    IF i = 1 THEN 0
    ELSE Offset(docs, i - 1) + Len(docs[i - 1].page_content) + 2

\* ctx is the texts of docs, in order, with a blank line between neighbours
IsJoinedTexts(ctx, docs) ==
    LET n == Len(docs)
    IN /\ Len(ctx) = IF n = 0 THEN 0 ELSE Offset(docs, n) + Len(docs[n].page_content)
       /\ \A i \in 1..n :
             LET from == Offset(docs, i)
                 len == Len(docs[i].page_content)
             IN /\ SubSeq(ctx, from + 1, from + len) = docs[i].page_content
                /\ i < n => SubSeq(ctx, from + len + 1, from + len + 2) = <<NL, NL>>

\* C9: the context of answer and of answer_stream is the retrieved chunks'
\* texts in retrieval-rank order joined by a blank line, none omitted,
\* duplicated or reordered.
C9_ContextIsJoinedChunkTexts ==
    /\ out.op = "answer"
       => /\ \A i \in 1..Len(out.ret.log) :
                out.ret.log[i].fn = "qa_prompt"
                => IsJoinedTexts(out.ret.log[i].arg, out.ret.docs)
          /\ (out.ret.failed = "none" /\ out.ret.log # <<>>)
             => IsJoinedTexts(out.ret.result.context, out.ret.docs)
    /\ out.op = "answer_stream"
       => /\ \A i \in 1..Len(out.ret.log) :
                out.ret.log[i].fn = "qa_prompt"
                => /\ out.ret.log[i].arg = out.ret.context
                   /\ IsJoinedTexts(out.ret.context, out.ret.docs)

C9_Witness ==
    /\ out.op = "answer"
    /\ out.ret.failed = "none"
    /\ Len(out.ret.docs) >= 3
    /\ out.ret.docs # SubSeq(heap[frame[MainThread].ret].vectordb.entries, 1, Len(out.ret.docs))

C11_EmptyHistoryLeavesQuestion ==
    (out.op \in {"answer", "answer_stream"} /\ out.chat_history = <<>>)
    => /\ enhance_question_with_history(out.question, out.chat_history)
          = [exc |-> "none", text |-> out.question]
       /\ out.ret.log # <<>> => out.ret.log[1].arg = out.question

C11_Witness ==
    /\ out.op = "answer"
    /\ out.chat_history = <<>>
    /\ out.question = <<"b", "c">>
    /\ out.ret.log # <<>>
    /\ out.ret.log[1].fn = "retriever"
    /\ out.ret.log[1].arg = <<"b", "c">>

\* positions of a token in a text, ascending; occurrence of a part at a position
RECURSIVE PositionsFrom(_, _, _)
PositionsFrom(text, tok, p) ==
    IF p > Len(text) THEN <<>>
    ELSE (IF text[p] = tok THEN <<p>> ELSE <<>>) \o PositionsFrom(text, tok, p + 1)

OccursAt(text, part, p) ==
    /\ p >= 1
    /\ p + Len(part) - 1 <= Len(text)
    /\ SubSeq(text, p, p + Len(part) - 1) = part

Occurs(text, part) == \E p \in 1..Len(text) : OccursAt(text, part, p)

TurnBody(turn) == <<"User:">> \o turn[1] \o <<NL, "Assistant:">> \o turn[2]

Min(a, b) == IF a < b THEN a ELSE b

\* C12: for a history of n >= 1 turns the enhanced question holds exactly the
\* last min(n, 3) turns, in their order and numbered 1..min(n, 3), then the
\* new question; no older turn appears in it.
C12_LastThreeTurnsNumbered ==
    (/\ out.op \in {"answer", "answer_stream"}
     /\ out.chat_history # <<>>
     /\ \A i \in 1..Len(out.chat_history) : Len(out.chat_history[i]) = 2
     /\ out.ret.log # <<>>)
    => LET h == out.chat_history
           n == Len(h)
           m == Min(n, 3)
           text == out.ret.log[1].arg
           starts == PositionsFrom(text, "Turn", 1)
           qpos == PositionsFrom(text, "Question:", 1)
       IN /\ Len(starts) = m
          /\ Len(qpos) = 1
          /\ \A j \in 1..m :
                /\ text[starts[j] + 1] = Digit(j)
                /\ OccursAt(text, TurnBody(h[n - m + j]), starts[j] + 4)
                /\ starts[j] < qpos[1]
          /\ OccursAt(text, out.question, qpos[1] + 1)
          /\ \A i \in 1..(n - m) : ~Occurs(text, TurnBody(h[i]))

C12_Witness ==
    /\ out.op = "answer_stream"
    /\ out.chat_history = <<T1, T2, T3, T4>>
    /\ out.question = <<"a">>
    /\ out.ret.log # <<>>
    /\ Occurs(out.ret.log[1].arg, <<"Turn", "3", ":", NL>> \o TurnBody(T4))
    /\ ~Occurs(out.ret.log[1].arg, TurnBody(T1))

IsErrorMarker(fragment) == Len(fragment) >= 1 /\ fragment[1] = "Error:"

\* C13: for both backends generate never raises; a backend error or a reply
\* without choices makes it return the failure signal, a reply makes it
\* return the reply's text.
C13_GenerateNeverRaises ==
    (out.op = "llm_main" /\ out.response # NotCalled)
    => /\ ~out.response.raised
       /\ out.exc = "none"
       /\ Reply(out.behaviour).kind \in {"error", "empty"} => out.response.none
       /\ Reply(out.behaviour).kind = "ok"
          => ~out.response.none /\ out.response.text = Reply(out.behaviour).text

C13_Witness ==
    /\ out.op = "llm_main"
    /\ out.llm = OpenAI
    /\ out.step = "generated"
    /\ Reply(out.behaviour) = BackendError
    /\ out.response.none

\* C14: for both backends, when the backend errors before the first fragment
\* or after some fragments, generate_stream does not raise: it yields the
\* fragments received so far, then exactly one error marker, which is the
\* last element.
C14_StreamEndsWithOneErrorMarker ==
    (out.op = "llm_main" /\ out.stream # NotStreamed
     /\ out.behaviour.fail_after # NoFail)
    => LET fragments == out.stream.fragments
           n == Len(fragments)
       IN /\ ~out.stream.raised
          /\ out.exc = "none"
          /\ n >= 1
          /\ IsErrorMarker(fragments[n])
          /\ \A i \in 1..(n - 1) : ~IsErrorMarker(fragments[i])
          /\ SubSeq(fragments, 1, n - 1)
             = NonEmpty(SubSeq(out.behaviour.chunks, 1, out.behaviour.fail_after))

C14_Witness ==
    /\ out.op = "llm_main"
    /\ out.llm = Zhipu
    /\ out.step = "streamed"
    /\ out.behaviour.fail_after = 2
    /\ Len(out.stream.fragments) = 2
    /\ out.stream.fragments[1] = <<"x">>
    /\ IsErrorMarker(out.stream.fragments[2])

\* C15 as stated: for every backend behaviour, a failing backend included,
\* the concatenation of the fragments of generate_stream equals the text
\* generate returns.
C15_StreamConcatEqualsGenerate ==
    (out.op = "llm_main" /\ out.step = "streamed")
    => /\ ~out.response.none
       /\ Join(<<>>, out.stream.fragments) = out.response.text

\* C15 amended: the law holds when the backend replies without error and with
\* choices; when it fails, generate returns the failure signal while the
\* fragments end with the error marker, and for a reply without choices
\* generate returns the failure signal while nothing is yielded.
C15_ConcatEqualsGenerateOnSuccess ==
    (out.op = "llm_main" /\ out.step = "streamed")
    => /\ Reply(out.behaviour).kind = "ok"
          => /\ ~out.response.none
             /\ Join(<<>>, out.stream.fragments) = out.response.text
       /\ Reply(out.behaviour).kind = "error"
          => /\ out.response.none
             /\ IsErrorMarker(out.stream.fragments[Len(out.stream.fragments)])
       /\ Reply(out.behaviour).kind = "empty"
          => out.response.none /\ out.stream.fragments = <<>>

C15_Witness ==
    /\ out.op = "llm_main"
    /\ out.step = "streamed"
    /\ out.behaviour.chunks = << <<"x">>, <<>>, <<"y">> >>
    /\ out.behaviour.fail_after = NoFail
    /\ out.response.text = <<"x", "y">>
    /\ out.stream.fragments = << <<"x">>, <<"y">> >>

\* C16: in answer_stream the enhancement, the retrieval and the assembly of
\* the context are complete before the first increment is yielded, and no
\* retrieval happens once increments are being yielded: there is one
\* retrieval, of the enhanced question, and it and the prompt over the joined
\* context precede every yield.
C16_RetrievalBeforeFirstIncrement ==
    (out.op = "answer_stream" /\ Len(Strip(out.question)) > 0)
    => LET trace == out.ret.trace
           enh == enhance_question_with_history(out.question, out.chat_history)
           retrievals == PositionsFrom([i \in 1..Len(trace) |-> trace[i].fn],
                                       "get_relevant_documents", 1)
           yields == PositionsFrom([i \in 1..Len(trace) |-> trace[i].fn], "yield", 1)
       IN /\ Len(yields) = Len(out.ret.fragments)
          /\ \A i \in 1..Len(trace) :
                trace[i].fn # "yield" => \A j \in 1..Len(yields) : i < yields[j]
          /\ Len(retrievals) <= 1
          /\ enh.exc = "none"
             => /\ retrievals = <<1>>
                /\ trace[1].arg = enh.text
          /\ out.ret.failed \in {"none", "generate"}
             => /\ trace[2].fn = "qa_prompt"
                /\ trace[2].arg = out.ret.context
                /\ IsJoinedTexts(out.ret.context, out.ret.docs)

C16_Witness ==
    /\ out.op = "answer_stream"
    /\ out.ret.failed = "none"
    /\ out.chat_history # <<>>
    /\ out.ret.docs # <<>>
    /\ Len(out.ret.fragments) = 2
    /\ Len(out.ret.trace) = 5
    /\ out.ret.trace[1].fn = "get_relevant_documents"
    /\ out.ret.trace[4].fn = "yield"

\* the corpus yields no chunks
NoChunks == split_documents(knowledge_db, IntNone, IntNone).docs = <<>>

\* C17: building an index when the corpus yields no chunks fails with an
\* EmptyCorpus error, not with a 'no index' return value, and leaves the index
\* Empty: nothing exists at the index path afterwards, so a later
\* initialization still takes the build path.
C17_EmptyBuildFailsAndStaysEmpty ==
    /\ (out.op = "db_create" /\ NoChunks
        /\ db_embedding(out.embedding_type, api_keys) = "none")
       => /\ out.ret.exc = "EmptyCorpus"
          /\ ~out.ret.none
          /\ ~out.fs0.present => fs = out.fs0
    /\ \A t \in Threads :
          (pc[t] = "done" /\ out = NoOut /\ NoChunks
           /\ frame[t].index_states = <<"Empty", "Building">>)
          => /\ frame[t].exc = "EmptyCorpus"
             /\ fs = frame[t].fs0
             /\ init_vector_db(frame[t].embedding_type, fs, knowledge_db).states
                = <<"Empty", "Building">>

\* C18: loading an index from an absent path fails with an IndexNotFound
\* error reported to the caller, distinguishable from what is reported for a
\* path that holds no readable index.
C18_AbsentPathReportsIndexNotFound ==
    (out.op = "db_load" /\ ~out.fs0.exists
     /\ db_embedding(out.embedding_type, api_keys) = "none")
    => /\ out.ret.exc = "IndexNotFound"
       /\ out.ret # load_vector_db(out.embedding_type, EmptyDir, api_keys)

\* C19: after any sequence of constructions with different embedding kinds
\* over the one index path, every pipeline whose index reached Ready holds an
\* index built with the embedding kind it embeds queries with; loading an
\* index built with another kind fails with CorruptIndex.
C19_ReadyIndexMatchesEmbedding ==
    /\ \A i \in 1..Len(heap) :
          heap[i].index_states = <<"Empty", "Loading", "Ready">>
          \/ heap[i].index_states = <<"Empty", "Building", "Ready">>
          => heap[i].vectordb.emb = heap[i].embedding_type
    /\ \A t \in Threads :
          (/\ pc[t] \in {"store", "return", "done"}
           /\ frame[t].index_states # <<>>
           /\ frame[t].index_states # <<"Empty">>
           /\ frame[t].fs0.present
           /\ frame[t].fs0.emb # frame[t].embedding_type)
          => frame[t].exc = "CorruptIndex"

\* the index of a pipeline went Empty -> Building -> Ready or
\* Empty -> Loading -> Ready and the pipeline holds the vector store
IndexReady(obj) ==
    /\ obj.index_states \in { <<"Empty", "Building", "Ready">>,
                              <<"Empty", "Loading", "Ready">> }
    /\ obj.vectordb # NoVectorDb

\* C20: the index of a pipeline goes Empty -> Building -> Ready (nothing at
\* the index path: build, then persist) or Empty -> Loading -> Ready (index
\* path present: load), or stops on the way with an error; a pipeline is
\* stored in the cache, returned or used to answer only if its index reached
\* Ready.
C20_OnlyReadyPipelinesStoredOrUsed ==
    /\ \A k \in Keys : chains[k] # NoObject => IndexReady(heap[chains[k]])
    /\ \A t \in Threads :
          /\ frame[t].obj # NoObject => IndexReady(heap[frame[t].obj])
          /\ frame[t].ret # NoObject => IndexReady(heap[frame[t].ret])
          /\ frame[t].index_states
                \in { <<>>, <<"Empty">>, <<"Empty", "Building">>, <<"Empty", "Loading">>,
                      <<"Empty", "Building", "Ready">>, <<"Empty", "Loading", "Ready">> }
          /\ Len(frame[t].index_states) >= 2
             => /\ frame[t].index_states[2] = "Building" <=> ~frame[t].fs0.exists
                /\ frame[t].index_states[2] = "Loading" <=> frame[t].fs0.exists
          /\ frame[t].index_states # <<>> /\ Len(frame[t].index_states) < 3
             => /\ pc[t] = "done"
                /\ frame[t].exc # "none"
                /\ frame[t].obj = NoObject /\ frame[t].ret = NoObject
          /\ frame[t].index_states = <<"Empty", "Building", "Ready">>
             => fs.present
    /\ out.op \in {"answer", "answer_stream"}
       => out.chain # NoObject /\ IndexReady(heap[out.chain])

C20_Witness ==
    /\ out.op = "answer"
    /\ out.ret.failed = "none"
    /\ heap[out.chain].index_states = <<"Empty", "Building", "Ready">>
    /\ chains[frame[MainThread].key] = out.chain
    /\ fs = Index(M3E, heap[out.chain].vectordb.entries)

\* the value a parameter stands for: what was passed, the default if omitted
Passed(x, default) == IF x = IntNone THEN default ELSE x

\* C21: for all parameters with chunk_overlap >= chunk_size, equality
\* included, splitting fails with a configuration error and produces no
\* chunks.
C21_OverlapNotBelowSizeFails ==
    (/\ out.op = "split"
     /\ Passed(out.chunk_size, chunk_size_default) > 0
     /\ Passed(out.chunk_overlap, chunk_overlap_default)
        >= Passed(out.chunk_size, chunk_size_default))
    => out.ret.exc # "none" /\ out.ret.docs = <<>>

\* C24: split_documents splits with exactly the chunk_size and chunk_overlap
\* the caller passes, chunk_overlap = 0 included; the defaults stand in only
\* for a parameter that is omitted.
C24_SplitsWithPassedParameters ==
    out.op = "split"
    => LET size == Passed(out.chunk_size, chunk_size_default)
           overlap == Passed(out.chunk_overlap, chunk_overlap_default)
       IN (size > 0 /\ overlap >= 0 /\ overlap < size)
          => /\ out.ret.exc = "none"
             /\ out.ret.docs = SplitAll(out.documents, size, size - overlap)

\* C22: in every answer or answer_stream call the number of chunks retrieved
\* (and of sources) is at most the chain's top_k at the time of the call: a
\* top_k set on the chain between calls governs the next retrieval.
C22_RetrievalBoundedByTopK ==
    (out.op \in {"answer", "answer_stream"} /\ out.chain # NoObject)
    => /\ Len(out.ret.docs) <= heap[out.chain].top_k
       /\ out.op = "answer" => Len(out.ret.result.sources) <= heap[out.chain].top_k
       /\ \A i \in 1..Len(out.ret.log) :
             out.ret.log[i].fn \in {"retriever", "get_relevant_documents"}
             => out.ret.log[i].n = heap[out.chain].top_k

\* C23: the temperature given to the backend equals the chain's temperature
\* field at the time of the call, in answer and in answer_stream.
C23_BackendTemperatureIsChainTemperature ==
    (out.op \in {"answer", "answer_stream"} /\ out.chain # NoObject)
    => \A i \in 1..Len(out.ret.log) :
          out.ret.log[i].fn \in {"llm", "generate_stream"}
          => out.ret.log[i].n = heap[out.chain].temperature

\* C25: if constructing a pipeline inside get_chain fails, the exception
\* reaches the caller and the cache is unchanged: nothing is stored for the
\* key, the entries of other keys are untouched, and a later get_chain for
\* the key attempts the construction again.
C25_FailedConstructionLeavesCache ==
    /\ [][\A t \in Threads :
             /\ (pc[t] = "construct" /\ pc'[t] = "done")
                => /\ frame'[t].exc \notin {"none", "KeyError"}
                   /\ frame'[t].ret = NoObject
                   /\ chains' = chains
                   /\ chains[frame[t].key] = NoObject
             /\ (pc[t] = "check" /\ pc'[t] # "check"
                 /\ chains[frame[t].key] = NoObject)
                => pc'[t] = "construct"]_vars
    /\ [](\A t \in Threads :
             (pc[t] = "done" /\ frame[t].exc \notin {"none", "KeyError"})
             => chains[frame[t].key] = NoObject /\ frame[t].ret = NoObject)

C25_Witness ==
    /\ pc[MainThread] = "done"
    /\ frame[MainThread].exc = "ValueError"
    /\ chains[frame[MainThread].key] = NoObject
    /\ \E k \in Keys : k # frame[MainThread].key /\ chains[k] # NoObject

\* C26: in every interleaving of get_chain with a concurrent clear_chains, a
\* get_chain call whose construction succeeded returns a pipeline and never
\* fails because its key is missing from the cache.
C26_ReturnsDespiteConcurrentClear ==
    \A t \in Threads :
        (pc[t] = "done" /\ frame[t].obj # NoObject)
        => frame[t].exc = "none" /\ frame[t].ret # NoObject

\* a question that is empty or consists of whitespace only
Blank(question) == \A i \in 1..Len(question) : question[i] \in {" ", NL}

\* C27: for an empty or whitespace-only question neither the retriever nor
\* the LLM backend is called: answer returns an empty answer, an empty context
\* and no sources; answer_stream yields exactly one empty fragment and ends.
C27_BlankQuestionCallsNothing ==
    /\ (out.op = "answer" /\ Blank(out.question))
       => /\ ~out.ret.raised
          /\ out.ret.log = <<>>
          /\ out.ret.result = Result(<<>>, <<>>, <<>>)
    /\ (out.op = "answer_stream" /\ Blank(out.question))
       => /\ ~out.ret.raised
          /\ out.ret.log = <<>>
          /\ out.ret.fragments = << <<>> >>
          /\ out.ret.trace = <<Event("yield", <<>>, 0)>>

C27_Witness ==
    /\ out.op = "answer_stream"
    /\ out.question = <<" ">>
    /\ out.chat_history # <<>>
    /\ heap[out.chain].vectordb.entries # <<>>
    /\ out.ret.fragments = << <<>> >>

\* a fragment that reports a failure: the apology of answer_stream or the
\* error text of generate_stream
IsFailureFragment(fragment) == IsApology(fragment) \/ IsErrorMarker(fragment)

\* C28: answer_stream never raises to its consumer and ends when the backend
\* stream ends; when the enhancement, the retrieval or the streaming fails, it
\* yields exactly one fragment reporting the failure, and that fragment is
\* the last one it yields.
C28_StreamFailureYieldsOneLastFragment ==
    out.op = "answer_stream"
    => /\ ~out.ret.raised
       /\ Len(out.ret.fragments) <= Len(out.env.stream.chunks) + 1
       /\ out.ret.failed # "none"
          => /\ out.ret.fragments # <<>>
             /\ \A i \in 1..Len(out.ret.fragments) :
                    IsFailureFragment(out.ret.fragments[i])
                    <=> i = Len(out.ret.fragments)
       /\ out.ret.failed \in {"enhance", "retrieve"}
          => Len(out.ret.fragments) = 1 /\ IsApology(out.ret.fragments[1])

C28_Witness ==
    /\ out.op = "answer_stream"
    /\ out.ret.failed = "generate"
    /\ Len(out.ret.fragments) = 2
    /\ IsErrorMarker(out.ret.fragments[2])

\* C29: in a Streamlit session, after any sequence of session initialisation,
\* automatic configuration, manual configuration (succeeding or failing) and
\* chat inputs, api_configured = True implies that qa_manager is a
\* QaChainManager and not None.
C29_ConfiguredImpliesManager ==
    (out.op = "session" /\ out.api_configured) => out.qa_manager # NoManager

C29_Witness ==
    /\ out.op = "session"
    /\ out.api_configured
    /\ out.qa_manager = 2
    /\ out.last = "chat_answered"

\* C30: when rebuild_faiss_database fails, the index that was persisted before
\* the run is still on disk and can be loaded.
C30_FailedRebuildKeepsIndex ==
    (out.op = "rebuild" /\ ~out.ret /\ out.fs0.present)
    => /\ fs.present
       /\ fs.emb = out.fs0.emb
       /\ fs.entries = out.fs0.entries
       /\ ~load_vector_db(out.fs0.emb, fs, [zhipu |-> TRUE, openai |-> TRUE]).none

====
